---------------------------- MODULE Spec2Model ----------------------------
(***************************************************************************)
(* A model of the Music-Player core: Song (song.rs) and Menu (menu.rs).    *)
(*                                                                         *)
(*   - the codec (load_wav / save_wav) with IEEE-754 binary32 arithmetic   *)
(*     carried out on integers (sign, 24-bit significand, exponent);       *)
(*   - the device probe (determine_final_sample_rate);                     *)
(*   - the cache policy (prepare_audio_data, resample_and_cache);          *)
(*   - the playback engine (update, play, pause, the output callback);     *)
(*   - the menu (Menu::update and its click handling).                     *)
(*                                                                         *)
(* The file system, the audio device and the rubato resampler are the      *)
(* environment: their outcomes are inputs of the actions.                  *)
(***************************************************************************)
EXTENDS Integers, Sequences, FiniteSets, TLC

(***************************************************************************)
(* Program constants.                                                      *)
(***************************************************************************)
\* i16::MAX, the scale of load_wav and save_wav
I16Max == 32767

\* i16::MIN, the lower end of the `as i16` cast
I16Min == -32768

\* the rate from_file falls back to when the source does not decode
FallbackRate == 44100

\* `let channels = 2; // assuming stereo`
Channels == 2

\* significand width of an f32, hidden bit included
F32Bits == 24

(***************************************************************************)
(* Bounds of the model.                                                    *)
(***************************************************************************)
\* chunk_size handed to FftFixedInOut::new (1024 in the source), scaled down
ChunkSize == 2

\* number of Song::from_file calls in one behaviour
MaxLoads == 2

\* number of songs loaded through the menu in one behaviour of the whole system
MaxMenuLoads == 1

\* largest output block the device asks the callback to fill
MaxBlock == 2

\* the callback is followed until the cursor has reached this value
MaxCursor == 4

\* device streams that can be open at the same time
MaxStreams == 2

\* samples in a source file of the codec specification
MaxCodecLen == 2

\* words in a file name, and characters in a word, of the names specification
MaxWords == 2
MaxWordLen == 2

\* supported ranges in a device profile, and the highest rate, of the probe
\* specification
MaxRanges == 2
MaxRate == 3

\* samples in the input of the resampling specification
MaxInput == 5

\* callback invocations in progress at once on one stream
MaxThreads == 2

\* slots served and asked for in the specification of the locks
MaxLockSlots == 1

(***************************************************************************)
(* f32 arithmetic.  A finite f32 is [s, m, e] with value s * m * 2^e,      *)
(* s in {1,-1}, and either m = 0 = e or 2^23 <= m < 2^24.  All products    *)
(* are kept below 2^31.                                                    *)
(***************************************************************************)
\* the sequence with the elements of f, in order
AsSeq(f) == SubSeq(f, 1, Len(f))

RECURSIVE Pow2Rec(_)
Pow2Rec(n) == IF n = 0 THEN 1 ELSE 2 * Pow2Rec(n - 1)

Pow2Table == AsSeq([n \in 1..31 |-> Pow2Rec(n - 1)])

Pow2(n) == Pow2Table[n + 1]

F32Zero == [s |-> 1, m |-> 0, e |-> 0]

Abs(x) == IF x < 0 THEN -x ELSE x

\* round-to-nearest, ties-to-even, of (q + rem/den) with q already F32Bits wide
F32Round(sgn, q, rem, den, e) ==
    LET up == (2 * rem > den) \/ (2 * rem = den /\ q % 2 = 1)
        q1 == IF up THEN q + 1 ELSE q
    IN  IF q1 = Pow2(F32Bits)
        THEN [s |-> sgn, m |-> Pow2(F32Bits - 1), e |-> e + 1]
        ELSE [s |-> sgn, m |-> q1, e |-> e]

\* the number of bits of n: 0 for 0, k for 2^(k-1) <= n < 2^k
BitLen4(n) == IF n >= 8 THEN 4 ELSE IF n >= 4 THEN 3 ELSE IF n >= 2 THEN 2 ELSE n

BitLen8(n) == IF n >= 16 THEN 4 + BitLen4(n \div 16) ELSE BitLen4(n)

BitLen16(n) == IF n >= 256 THEN 8 + BitLen8(n \div 256) ELSE BitLen8(n)

BitLen(n) == IF n >= 65536 THEN 16 + BitLen16(n \div 65536) ELSE BitLen16(n)

\* long division: brings down up to 15 more bits of the quotient at a time
\* until it is F32Bits wide (r < b < 2^15 keeps r * 2^15 below 2^31)
RECURSIVE F32DivBits(_, _, _, _)
F32DivBits(q, r, b, e) ==
    IF q >= Pow2(F32Bits - 1)
    THEN <<q, r, e>>
    ELSE LET k == IF F32Bits - BitLen(q) > 15 THEN 15 ELSE F32Bits - BitLen(q)
         IN  F32DivBits(q * Pow2(k) + ((r * Pow2(k)) \div b), (r * Pow2(k)) % b, b, e - k)

\* `a as f32 / b as f32` for integers |a| <= 2^15, 0 < b < 2^15
F32DivInt(a, b) ==
    IF a = 0 THEN F32Zero
    ELSE LET d == F32DivBits(Abs(a) \div b, Abs(a) % b, b, 0)
         IN  F32Round(IF a < 0 THEN -1 ELSE 1, d[1], d[2], b, d[3])

\* number of low bits to drop so that q * 2^12 + r becomes F32Bits wide
F32Shift(q) == IF BitLen(q) + 12 > F32Bits THEN BitLen(q) + 12 - F32Bits ELSE 0

\* `x * (n as f32)` for an integer 1 <= n < 2^15
F32MulInt(x, n) ==
    IF x.m = 0 THEN F32Zero
    ELSE LET a  == (x.m \div 4096) * n
             b  == (x.m % 4096) * n
             q  == a + (b \div 4096)      \* x.m * n = q * 4096 + r
             r  == b % 4096
             sh == F32Shift(q)
         IN  IF sh = 0 THEN [s |-> x.s, m |-> q * 4096 + r, e |-> x.e]
             ELSE IF sh >= 12
             THEN LET p == Pow2(sh - 12)
                  IN  F32Round(x.s, q \div p, (q % p) * 4096 + r, Pow2(sh), x.e + sh)
             ELSE LET p == Pow2(sh)
                  IN  F32Round(x.s, q * Pow2(12 - sh) + (r \div p), r % p, p, x.e + sh)

\* `x as i16`: truncation toward zero, saturating at the ends of i16
F32ToI16(x) ==
    LET mag == IF x.m = 0 THEN 0
               ELSE IF x.e >= 0 THEN -I16Min + 1
               ELSE IF -x.e > F32Bits THEN 0
               ELSE x.m \div Pow2(-x.e)
    IN  IF x.s = 1
        THEN (IF mag > I16Max THEN I16Max ELSE mag)
        ELSE (IF mag > -I16Min THEN I16Min ELSE -mag)

\* x * 2^k, exact (k may be negative)
F32Scale(x, k) == IF x.m = 0 THEN F32Zero ELSE [x EXCEPT !.e = @ + k]

(***************************************************************************)
(* Codec: load_wav and save_wav on one sample.                             *)
(***************************************************************************)
\* load_wav: `s.unwrap_or(0) as f32 / i16::MAX as f32`
\* a decoder that divides by one less than i16::MAX
DecodeSampleBy32766(s) == F32DivInt(s, 32766)

\* a decoder that divides by 2^15 instead of i16::MAX
DecodeSampleBy32768(s) == F32DivInt(s, 32768)

DecodeSample(s) == F32DivInt(s, I16Max)

\* save_wav: `(sample * i16::MAX as f32) as i16`
EncodeSample(x) == F32ToI16(F32MulInt(x, I16Max))


\* load_wav, lines 430-433: every sample of the file, normalised
DecodeSamples(data) == AsSeq([i \in 1..Len(data) |-> DecodeSample(data[i])])

\* save_wav, lines 558-561: every sample, scaled and cast
EncodeSamples(samples) == AsSeq([i \in 1..Len(samples) |-> EncodeSample(samples[i])])

(***************************************************************************)
(* Titles and file names.  A string is a sequence of one-character         *)
(* strings; "sharp_s" stands for U+00DF, a lowercase letter outside ASCII. *)
(***************************************************************************)
Lowers == <<"a", "b", "c", "s", "v", "w">>
Uppers == <<"A", "B", "C", "S", "V", "W">>

\* char::to_uppercase on the alphabet of the model: the characters it yields.
\* U+00DF has an upper case of two characters.
ToUpper(c) ==
    IF \E i \in 1..Len(Lowers) : Lowers[i] = c
    THEN <<Uppers[CHOOSE i \in 1..Len(Lowers) : Lowers[i] = c]>>
    ELSE IF c = "sharp_s" THEN <<"S", "S">>
    ELSE <<c>>

\* char::to_lowercase on the alphabet of the model
ToLower(c) ==
    IF \E i \in 1..Len(Uppers) : Uppers[i] = c
    THEN Lowers[CHOOSE i \in 1..Len(Uppers) : Uppers[i] = c]
    ELSE c

\* str::rfind: the last index of c in s, 0 when there is none
RFind(s, c) ==
    LET hits == {i \in 1..Len(s) : s[i] = c}
    IN  IF hits = {} THEN 0 ELSE CHOOSE i \in hits : \A j \in hits : j <= i

\* str::split(sep): every piece, empty pieces included
RECURSIVE SplitOn(_, _)
SplitOn(s, sep) ==
    LET hits == {i \in 1..Len(s) : s[i] = sep}
    IN  IF hits = {} THEN <<s>>
        ELSE LET i == CHOOSE k \in hits : \A j \in hits : k <= j
             IN  <<SubSeq(s, 1, i - 1)>> \o SplitOn(SubSeq(s, i + 1, Len(s)), sep)

\* [String]::join(sep)
RECURSIVE JoinWith(_, _)
JoinWith(words, sep) ==
    IF Len(words) = 0 THEN <<>>
    ELSE IF Len(words) = 1 THEN words[1]
    ELSE words[1] \o <<sep>> \o JoinWith(Tail(words), sep)

\* the closure of get_title_from_file: first character upper-cased
Capitalize(word) ==
    IF Len(word) = 0 THEN <<>> ELSE ToUpper(word[1]) \o Tail(word)

\* Song::get_title_from_file
GetTitleFromFile(song_file_name) ==
    LET index == RFind(song_file_name, ".")
        title == IF index = 0 THEN song_file_name
                 ELSE SubSeq(song_file_name, 1, index - 1)
        words == SplitOn(title, "-")
    IN  JoinWith(AsSeq([i \in 1..Len(words) |-> Capitalize(words[i])]), " ")

\* str::split_whitespace: the non-empty pieces between spaces
SplitWhitespace(s) == SelectSeq(SplitOn(s, " "), LAMBDA w : Len(w) > 0)

\* a get_file_from_title that keeps the case of the title
GetFileKeepingCase(title) ==
    JoinWith(SplitWhitespace(title), "-") \o <<".", "w", "a", "v">>

\* Song::get_file_from_title
GetFileFromTitle(title) ==
    LET words == SplitWhitespace(title)
        lower == AsSeq([i \in 1..Len(words) |->
                    AsSeq([j \in 1..Len(words[i]) |-> ToLower(words[i][j])])])
    IN  JoinWith(lower, "-") \o <<".", "w", "a", "v">>

(***************************************************************************)
(* Device probe.  A device profile is what cpal answers:                   *)
(*   present  default_output_device() is Some                              *)
(*   cfgOk    supported_output_configs() is Ok                             *)
(*   ranges   its (min, max) sample-rate ranges, in the order iterated     *)
(*   defOk    default_output_config() is Ok                                *)
(*   defRate  its sample rate                                              *)
(*   f32      its sample format is F32                                     *)
(*   buildOk  build_output_stream is Ok                                    *)
(*   playOk   stream.play() is Ok                                          *)
(***************************************************************************)
\* lines 275-282: some range holds the file rate
InSomeRange(file_sample_rate, ranges) ==
    \E i \in 1..Len(ranges) :
        file_sample_rate >= ranges[i][1] /\ file_sample_rate <= ranges[i][2]

\* a probe that answers the fallback rate of from_file when there is no device
DetermineWithoutDeviceAt44100(dev, file_sample_rate) ==
    IF ~dev.present THEN <<FALSE, FallbackRate>>
    ELSE IF ~dev.cfgOk THEN <<FALSE, file_sample_rate>>
    ELSE IF InSomeRange(file_sample_rate, dev.ranges) THEN <<TRUE, file_sample_rate>>
    ELSE IF dev.defOk THEN <<FALSE, dev.defRate>>
    ELSE <<FALSE, file_sample_rate>>

\* a probe that looks at the first supported range only
DetermineByFirstRange(dev, file_sample_rate) ==
    IF ~dev.present THEN <<FALSE, file_sample_rate>>
    ELSE IF ~dev.cfgOk THEN <<FALSE, file_sample_rate>>
    ELSE IF /\ Len(dev.ranges) > 0
            /\ file_sample_rate >= dev.ranges[1][1]
            /\ file_sample_rate <= dev.ranges[1][2]
         THEN <<TRUE, file_sample_rate>>
    ELSE IF dev.defOk THEN <<FALSE, dev.defRate>>
    ELSE <<FALSE, file_sample_rate>>

\* Song::determine_final_sample_rate: <<supports_native_rate, fallback_rate>>
DetermineFinalSampleRate(dev, file_sample_rate) ==
    IF ~dev.present THEN <<FALSE, file_sample_rate>>
    ELSE IF ~dev.cfgOk THEN <<FALSE, file_sample_rate>>
    ELSE IF InSomeRange(file_sample_rate, dev.ranges) THEN <<TRUE, file_sample_rate>>
    ELSE IF dev.defOk THEN <<FALSE, dev.defRate>>
    ELSE <<FALSE, file_sample_rate>>

(***************************************************************************)
(* Resampling engine.  The rubato resampler is the environment: `kernel`   *)
(* names what it does to a sample value.                                   *)
(***************************************************************************)
RECURSIVE Gcd(_, _)
Gcd(a, b) == IF b = 0 THEN a ELSE Gcd(b, a % b)

CeilDiv(a, b) == (a + b - 1) \div b

\* FftFixedInOut::new, line 485: the number of FFT chunks for this rate pair
FftChunks(from_rate, to_rate) ==
    CeilDiv(ChunkSize, from_rate \div Gcd(from_rate, to_rate))

\* resampler.input_frames_next(), line 494
InputFramesNext(from_rate, to_rate) ==
    FftChunks(from_rate, to_rate) * (from_rate \div Gcd(from_rate, to_rate))

\* frames resampler.process returns per channel for one block, line 512
OutputFramesNext(from_rate, to_rate) ==
    FftChunks(from_rate, to_rate) * (to_rate \div Gcd(from_rate, to_rate))

\* what the resampler makes of one sample value
KernelValue(kernel, x) ==
    CASE kernel = "hold"   -> x
      [] kernel = "half"   -> F32Scale(x, -1)
      [] kernel = "double" -> F32Scale(x, 1)

\* resampler.process on one channel of one block, line 512
ResamplerProcess(slice, out_frames, kernel) ==
    AsSeq([j \in 1..out_frames |->
        KernelValue(kernel, slice[(((j - 1) * Len(slice)) \div out_frames) + 1])])

\* lines 489-492: the samples of channel ch (0-based), in order
Deinterleave(input, channels, ch) ==
    LET n == IF Len(input) > ch THEN ((Len(input) - 1 - ch) \div channels) + 1 ELSE 0
    IN  AsSeq([k \in 1..n |-> input[(k - 1) * channels + ch + 1]])

\* lines 502-508: block number b (0-based) of one channel, zero filled
ChunkSlice(channel, b, input_frames) ==
    AsSeq([i \in 1..input_frames |->
        IF b * input_frames + i <= Len(channel)
        THEN channel[b * input_frames + i] ELSE F32Zero])

\* a loop that leaves out the final partial block
BlockCountWhole(frames, input_frames) == frames \div input_frames

\* line 498: the number of blocks, one per step of input_frames over channel 0
BlockCount(frames, input_frames) == CeilDiv(frames, input_frames)

\* lines 498-516: every block of one channel through the resampler
RECURSIVE ResampleChannel(_, _, _, _, _, _)
ResampleChannel(channel, b, blocks, input_frames, out_frames, kernel) ==
    IF b >= blocks THEN <<>>
    ELSE ResamplerProcess(ChunkSlice(channel, b, input_frames), out_frames, kernel)
         \o ResampleChannel(channel, b + 1, blocks, input_frames, out_frames, kernel)

\* an interleaving that puts one whole channel after the other
InterleavePlanar(all_resampled, channels) ==
    AsSeq([k \in 1..(Len(all_resampled[1]) * channels) |->
        all_resampled[((k - 1) \div Len(all_resampled[1])) + 1]
                     [((k - 1) % Len(all_resampled[1])) + 1]])

\* lines 519-525: frame by frame, channel by channel
Interleave(all_resampled, channels) ==
    AsSeq([k \in 1..(Len(all_resampled[1]) * channels) |->
        all_resampled[((k - 1) % channels) + 1][((k - 1) \div channels) + 1]])

\* lines 488-492: input_per_channel
InputPerChannel(input, channels) ==
    AsSeq([c \in 1..channels |-> Deinterleave(input, channels, c - 1)])

\* lines 498-509: the blocks handed to resampler.process, block by block,
\* each one a slice per channel
Chunks(input, from_rate, to_rate, channels) ==
    LET input_per_channel == InputPerChannel(input, channels)
        input_frames == InputFramesNext(from_rate, to_rate)
        blocks == BlockCount(Len(input_per_channel[1]), input_frames)
    IN  AsSeq([b \in 1..blocks |->
            AsSeq([c \in 1..channels |->
                ChunkSlice(input_per_channel[c], b - 1, input_frames)])])

\* lines 495-516: all_resampled after the loop
AllResampled(input, from_rate, to_rate, channels, kernel) ==
    LET input_per_channel == InputPerChannel(input, channels)
        input_frames == InputFramesNext(from_rate, to_rate)
        out_frames   == OutputFramesNext(from_rate, to_rate)
        blocks == BlockCount(Len(input_per_channel[1]), input_frames)
    IN  AsSeq([c \in 1..channels |->
            ResampleChannel(input_per_channel[c], 0, blocks,
                            input_frames, out_frames, kernel)])

\* Song::resample_to_device_rate
ResampleToDeviceRate(input, from_rate, to_rate, channels, kernel) ==
    Interleave(AllResampled(input, from_rate, to_rate, channels, kernel), channels)

(***************************************************************************)
(* Files.  A file is [ok, rate, data]: ok says that hound can decode it,   *)
(* rate is the declared sample rate, data the 16-bit samples.  The cache   *)
(* directory is a function from the paths that exist to their files.       *)
(***************************************************************************)
BadFile == [ok |-> FALSE, rate |-> 0, data |-> <<>>]

WavFile(rate, data) == [ok |-> TRUE, rate |-> rate, data |-> data]

\* line 208: "music_cache/{title}-{rate}Hz.wav"
CachePath(song_file_name, final_rate) == <<GetTitleFromFile(song_file_name), final_rate>>

\* Path::exists, line 214
PathExists(fs, path) == path \in DOMAIN fs

\* Song::load_wav is Ok: the file opens (readOk) and decodes
LoadWavOk(file, readOk) == readOk /\ file.ok

\* Song::load_wav, the Ok value: <<samples, sample rate>>
LoadWav(file) == <<DecodeSamples(file.data), file.rate>>

\* Song::save_wav is Ok
SaveWavOk(outcome) == outcome = "ok"

\* Song::save_wav: the directory after the call.  WavWriter::create fails
\* ("nocreate") and leaves the path as it was; or it truncates the path and a
\* later write fails, leaving an undecodable file ("torn") or a shorter one
\* ("short"); or every sample is written ("ok").
SaveWav(fs, path, samples, sample_rate, outcome) ==
    LET enc  == EncodeSamples(samples)
        file == CASE outcome = "ok"    -> WavFile(sample_rate, enc)
                  [] outcome = "short" -> WavFile(sample_rate, SubSeq(enc, 1, Len(enc) \div 2))
                  [] OTHER             -> BadFile
    IN  IF outcome = "nocreate" THEN fs
        ELSE [p \in DOMAIN fs \cup {path} |-> IF p = path THEN file ELSE fs[p]]

\* a load that never returns early from the cache
CacheNeverHit(fs, path, readOk) == FALSE

\* lines 214-226: the cached file exists and decodes
CacheHit(fs, path, readOk) == PathExists(fs, path) /\ LoadWavOk(fs[path], readOk)

\* a load that resamples whatever the rates are
AlwaysResample(file_sample_rate, final_rate) == TRUE

\* line 230: the engine is needed
NeedsResample(file_sample_rate, final_rate) == file_sample_rate # final_rate

\* a resample_and_cache that gives up its samples when save_wav fails
ResampleOrNothing(input, from_rate, to_rate, channels, path, fs, outcome, kernel) ==
    LET resampled == ResampleToDeviceRate(input, from_rate, to_rate, channels, kernel)
    IN  <<IF SaveWavOk(outcome) THEN resampled ELSE <<>>,
          SaveWav(fs, path, resampled, to_rate, outcome)>>

\* a resample_and_cache that writes the header with the source rate
ResampleAndCacheAtSourceRate(input, from_rate, to_rate, channels, path, fs, outcome, kernel) ==
    LET resampled == ResampleToDeviceRate(input, from_rate, to_rate, channels, kernel)
    IN  <<resampled, SaveWav(fs, path, resampled, from_rate, outcome)>>

\* a resample_and_cache that forgets to save
ResampleWithoutCache(input, from_rate, to_rate, channels, path, fs, outcome, kernel) ==
    <<ResampleToDeviceRate(input, from_rate, to_rate, channels, kernel), fs>>

\* Song::resample_and_cache: <<resampled, directory after save_wav>>
ResampleAndCache(input, from_rate, to_rate, channels, path, fs, outcome, kernel) ==
    LET resampled == ResampleToDeviceRate(input, from_rate, to_rate, channels, kernel)
    IN  <<resampled, SaveWav(fs, path, resampled, to_rate, outcome)>>

\* a prepare_audio_data that, on a cache hit, hands back the source samples
PrepareKeepingSource(song_file_name, raw_samples, file_sample_rate, fs, env) ==
    LET final_rate == DetermineFinalSampleRate(env.dev, file_sample_rate)[2]
        cache_path == CachePath(song_file_name, final_rate)
        exists     == PathExists(fs, cache_path)
        base == [path |-> cache_path, rate |-> final_rate, existed |-> exists,
                 readFailed |-> exists /\ ~LoadWavOk(fs[cache_path], env.readOk)]
    IN  IF CacheHit(fs, cache_path, env.readOk)
        THEN base @@ [samples |-> raw_samples, fs |-> fs,
                      hit |-> TRUE, resampled |-> FALSE, saved |-> FALSE]
        ELSE IF NeedsResample(file_sample_rate, final_rate)
        THEN LET rc == ResampleAndCache(raw_samples, file_sample_rate, final_rate,
                                        Channels, cache_path, fs, env.write, env.kernel)
             IN  base @@ [samples |-> rc[1], fs |-> rc[2],
                          hit |-> FALSE, resampled |-> TRUE, saved |-> TRUE]
        ELSE base @@ [samples |-> raw_samples,
                      fs |-> SaveWav(fs, cache_path, raw_samples, final_rate, env.write),
                      hit |-> FALSE, resampled |-> FALSE, saved |-> TRUE]

\* Song::prepare_audio_data.  env = [dev, readOk, write, kernel].
\* Returns the buffer, the final rate, the directory afterwards, and what
\* the call did (hit, read attempted, resampler invoked, save_wav called).
PrepareAudioData(song_file_name, raw_samples, file_sample_rate, fs, env) ==
    LET final_rate == DetermineFinalSampleRate(env.dev, file_sample_rate)[2]
        cache_path == CachePath(song_file_name, final_rate)
        exists     == PathExists(fs, cache_path)
        base == [path |-> cache_path, rate |-> final_rate, existed |-> exists,
                 readFailed |-> exists /\ ~LoadWavOk(fs[cache_path], env.readOk)]
    IN  IF CacheHit(fs, cache_path, env.readOk)
        THEN base @@ [samples |-> LoadWav(fs[cache_path])[1], fs |-> fs,
                      hit |-> TRUE, resampled |-> FALSE, saved |-> FALSE]
        ELSE IF NeedsResample(file_sample_rate, final_rate)
        THEN LET rc == ResampleAndCache(raw_samples, file_sample_rate, final_rate,
                                        Channels, cache_path, fs, env.write, env.kernel)
             IN  base @@ [samples |-> rc[1], fs |-> rc[2],
                          hit |-> FALSE, resampled |-> TRUE, saved |-> TRUE]
        ELSE base @@ [samples |-> raw_samples,
                      fs |-> SaveWav(fs, cache_path, raw_samples, final_rate, env.write),
                      hit |-> FALSE, resampled |-> FALSE, saved |-> TRUE]

\* a fallback to another rate than line 58 names
LoadSourceAt48000(src) ==
    IF LoadWavOk(src, TRUE) THEN LoadWav(src) ELSE <<<<>>, 48000>>

\* lines 54-60 of Song::from_file: <<raw_samples, file_sample_rate>>
LoadSource(src) ==
    IF LoadWavOk(src, TRUE) THEN LoadWav(src) ELSE <<<<>>, FallbackRate>>

(***************************************************************************)
(* Inputs the environment can give.                                        *)
(***************************************************************************)
FileA  == <<"a", ".", "w", "a", "v">>
FileBC == <<"b", "-", "c", ".", "w", "a", "v">>

\* what fs::read_dir("music_library") lists
Listings ==
    { [ok |-> FALSE, files |-> <<>>],
      [ok |-> TRUE, files |-> <<>>],
      [ok |-> TRUE, files |-> <<FileA>>],
      [ok |-> TRUE, files |-> <<FileA, FileBC>>] }

\* what a library file holds when it is read: undecodable, or 16-bit samples
Sources ==
    { BadFile,
      WavFile(2, <<16385, -3>>),
      WavFile(3, <<32767>>) }

\* default_output_device() is None
NoDevice ==
    [present |-> FALSE, cfgOk |-> FALSE, ranges |-> <<>>, defOk |-> FALSE, defRate |-> 0]

\* the probe's view of the device (determine_final_sample_rate)
ProbeDevices ==
    { NoDevice,
      [present |-> TRUE, cfgOk |-> FALSE, ranges |-> <<>>, defOk |-> TRUE, defRate |-> 3],
      [present |-> TRUE, cfgOk |-> TRUE, ranges |-> <<<<3, 3>>, <<2, 3>>>>,
       defOk |-> TRUE, defRate |-> 3],
      [present |-> TRUE, cfgOk |-> TRUE, ranges |-> <<<<3, 3>>>>,
       defOk |-> TRUE, defRate |-> 3],
      [present |-> TRUE, cfgOk |-> TRUE, ranges |-> <<<<FallbackRate, FallbackRate>>>>,
       defOk |-> TRUE, defRate |-> 3],
      [present |-> TRUE, cfgOk |-> TRUE, ranges |-> <<>>, defOk |-> FALSE, defRate |-> 0] }

\* the device as Song::play meets it
PlayDevice(p, d, f, b, s) ==
    [present |-> p, defOk |-> d, f32 |-> f, buildOk |-> b, playOk |-> s]

\* no device; no default config; a format other than F32; build_output_stream
\* fails; stream.play() fails; everything works
PlayDevices ==
    { PlayDevice(FALSE, FALSE, FALSE, FALSE, FALSE),
      PlayDevice(TRUE, FALSE, FALSE, FALSE, FALSE),
      PlayDevice(TRUE, TRUE, FALSE, TRUE, TRUE),
      PlayDevice(TRUE, TRUE, TRUE, FALSE, FALSE),
      PlayDevice(TRUE, TRUE, TRUE, TRUE, FALSE),
      PlayDevice(TRUE, TRUE, TRUE, TRUE, TRUE) }

WriteOutcomes == {"ok", "nocreate", "torn", "short"}

Kernels == {"hold", "half"}

\* the environment of one load: the device, whether the cached file opens,
\* how save_wav ends, what the resampler computes
LoadEnv(d, r, w, k) == [dev |-> d, readOk |-> r, write |-> w, kernel |-> k]

\* mouse positions: 0 is outside every button
Points == 0..2

\* a function with no argument at all: an empty directory, no open stream
EmptyFn == [x \in {} |-> 0]

\* the cache directory when the program starts: an undecodable file for
\* ("A", 3), a file that declares another rate for ("B C", 2), nothing else
InitialCache ==
    [p \in {CachePath(FileA, 3), CachePath(FileBC, 2)} |->
        IF p = CachePath(FileA, 3) THEN BadFile ELSE WavFile(3, <<7, 8>>)]

\* what a load may meet: how save_wav can end, what the resampler can do,
\* and whether every device profile is told apart
AnyLoad == [writes |-> WriteOutcomes, kernels |-> Kernels, profiles |-> "all"]

\* the loads the menu makes in the model of the whole program
MenuLoads == [writes |-> {"ok"}, kernels |-> {"half"}, profiles |-> "one"]

(***************************************************************************)
(* State.                                                                  *)
(***************************************************************************)
VARIABLES
    cache,          \* the music_cache directory: path -> file
    song,           \* Menu.song, a Song
    streams,        \* the open cpal output streams: id -> [buffer, count, running]
    menu,           \* the other fields of Menu
    loads,          \* history: number of from_file calls so far
    resampleCount,  \* history: path -> calls of resample_to_device_rate
    ioFailures,     \* history: path -> failed cache reads and writes
    lastLoad,       \* history: the from_file call of the last step, if it made one
    lastCb,         \* history: the callback invocation of the last step, if it was one
    lastUpdate,     \* history: the Song::update call of the last step, if it was one
    probe,          \* a function of the program applied on its own: input and result
    cbStream,       \* callbacks step by step: the stream's buffer and shared cursor
    cbThreads,      \* callbacks step by step: each invocation's position and slots left
    mutex,          \* callbacks step by step: the holders of the two mutexes
    served,         \* callbacks step by step: history of the slots filled, in order
    control,        \* callbacks step by step: the control thread's position in is_empty
    fault           \* history: the callback indexed the buffer out of bounds

vars == <<cache, song, streams, menu, loads, resampleCount, ioFailures,
          lastLoad, lastCb, lastUpdate, probe, cbStream, cbThreads, mutex,
          served, control, fault>>

\* no function is applied on its own
NoProbe == [kind |-> "none"]

\* what the steps of the program leave alone
Untouched == UNCHANGED <<probe, cbStream, cbThreads, mutex, served, control>>

\* the control thread is not in is_empty
ControlIdle == [pc |-> "idle", result |-> FALSE]

\* no stream is followed step by step
NoCbStream == [open |-> FALSE, buffer |-> <<>>, count |-> 0]

\* no invocation of the callback is in progress
IdleThreads == [t \in 1..MaxThreads |-> [pc |-> "idle", left |-> 0]]

\* nobody holds the mutex of audio_data nor that of frame_count
NoHolder == 0
FreeMutexes == [audio_data |-> NoHolder, frame_count |-> NoHolder]

\* a history counter: 0 for a path never counted
CountOf(f, p) == IF p \in DOMAIN f THEN f[p] ELSE 0

Bump(f, p) == [q \in DOMAIN f \cup {p} |-> IF q = p THEN CountOf(f, p) + 1 ELSE f[q]]

(***************************************************************************)
(* Song.                                                                   *)
(***************************************************************************)
NoStream == 0

\* Song::empty
EmptySong ==
    [is_playing |-> FALSE, audio_stream |-> NoStream, audio_data |-> <<>>,
     current_frame |-> 0, title |-> <<>>, filename |-> <<>>,
     final_sample_rate |-> FallbackRate]

\* lines 66-74 of Song::from_file: the Song built from the prepared data
NewSong(song_file_name, audio_data, final_rate) ==
    [is_playing |-> FALSE, audio_stream |-> NoStream, audio_data |-> audio_data,
     current_frame |-> 0, title |-> GetTitleFromFile(song_file_name),
     filename |-> song_file_name, final_sample_rate |-> final_rate]

\* Song::is_empty
IsEmpty(s) == Len(s.audio_data) = 0

\* dropping a cpal::Stream closes it
ReleaseStream(open, id) == [i \in DOMAIN open \ {id} |-> open[i]]

\* Song::pause: <<song, streams>> afterwards
Pause(s, open) ==
    IF s.audio_stream # NoStream
    THEN <<[s EXCEPT !.audio_stream = NoStream], ReleaseStream(open, s.audio_stream)>>
    ELSE <<s, open>>

\* a replaced Song whose stream stays open while its buffer is emptied for
\* the next load
RefillInPlace(s, open) ==
    [i \in DOMAIN open |->
        IF i = s.audio_stream THEN [open[i] EXCEPT !.buffer = <<>>] ELSE open[i]]

\* a replaced Song whose stream stays open
KeepStreamOpen(s, open) == open

\* a Song goes out of scope (menu.rs lines 225 and 230): its stream is dropped
DropSong(s, open) ==
    IF s.audio_stream # NoStream THEN ReleaseStream(open, s.audio_stream) ELSE open

\* lines 342-393 and 395: the stream can be opened
CanOpen(dev) == dev.present /\ dev.defOk /\ dev.f32 /\ dev.buildOk

FreeIds(open) == (1..MaxStreams) \ DOMAIN open

\* a play whose cursor starts one slot into the buffer
PlayFromOne(s, open, dev, id) ==
    IF s.audio_stream # NoStream THEN <<s, open>>
    ELSE IF ~CanOpen(dev) THEN <<s, open>>
    ELSE <<[s EXCEPT !.audio_stream = id],
           [i \in DOMAIN open \cup {id} |->
               IF i = id
               THEN [buffer |-> s.audio_data, count |-> s.current_frame + 1,
                     running |-> dev.playOk]
               ELSE open[i]]>>

\* Song::play: <<song, streams>> afterwards; id is the handle of the new stream
Play(s, open, dev, id) ==
    IF s.audio_stream # NoStream THEN <<s, open>>
    ELSE IF ~CanOpen(dev) THEN <<s, open>>
    ELSE <<[s EXCEPT !.audio_stream = id],
           [i \in DOMAIN open \cup {id} |->
               IF i = id
               THEN [buffer |-> s.audio_data, count |-> s.current_frame,
                     running |-> dev.playOk]
               ELSE open[i]]>>

\* an update that never raises the flag
FlagNeverSet(s, should_play) == FALSE

\* line 153: the flag after Song::update
FlagAfterUpdate(s, should_play) == should_play

\* an update that restarts the stream on every update(true)
UpdateRestarts(s, open, should_play, dev, id) ==
    LET p == Pause(s, open)
        r == IF should_play THEN Play(p[1], p[2], dev, id)
             ELSE IF s.is_playing THEN p
             ELSE <<s, open>>
    IN  <<[r[1] EXCEPT !.is_playing = should_play], r[2]>>

\* Song::update: <<song, streams>> afterwards
Update(s, open, should_play, dev, id) ==
    LET r == IF should_play /\ ~s.is_playing THEN Play(s, open, dev, id)
             ELSE IF ~should_play /\ s.is_playing THEN Pause(s, open)
             ELSE <<s, open>>
    IN  <<[r[1] EXCEPT !.is_playing = FlagAfterUpdate(s, should_play)], r[2]>>

(***************************************************************************)
(* The output callback, lines 370-381.                                     *)
(***************************************************************************)
\* a bounds test that lets the cursor reach the length
InRangeInclusive(count, len) == count <= len

\* line 374: the cursor is inside the buffer
InRange(count, len) == count < len

\* line 379
NextCount(count) == count + 1

\* lines 374-378: the value of one output slot
SlotValue(buffer, count) ==
    IF InRange(count, Len(buffer))
    THEN (IF count < Len(buffer) THEN buffer[count + 1] ELSE F32Zero)
    ELSE F32Zero

\* line 375 indexes past the end of the buffer: a panic in Rust
SlotFaults(buffer, count) == InRange(count, Len(buffer)) /\ count >= Len(buffer)

\* lines 373-380: n slots filled from the cursor on: [out, count, fault, read]
RECURSIVE FillBlock(_, _, _)
FillBlock(buffer, count, n) ==
    IF n = 0 THEN [out |-> <<>>, count |-> count, fault |-> FALSE, read |-> <<>>]
    ELSE LET rest == FillBlock(buffer, NextCount(count), n - 1)
         IN  [out   |-> <<SlotValue(buffer, count)>> \o rest.out,
              count |-> rest.count,
              fault |-> SlotFaults(buffer, count) \/ rest.fault,
              read  |-> <<count>> \o rest.read]

(***************************************************************************)
(* Menu.  A button is [label, tag, region, is_visible]; its rectangle is   *)
(* the set of mouse positions it contains.  Rectangles of playback and     *)
(* song buttons may overlap: song n lies over position n + 1.              *)
(***************************************************************************)
PlayTag == [prefix |-> "play_button", index |-> 0]
BackTag == [prefix |-> "back_button", index |-> 0]
SongTag(index) == [prefix |-> "song_", index |-> index]

LabelPlay  == <<"P", "L", "A", "Y">>
LabelPause == <<"P", "A", "U", "S", "E">>
LabelBack  == <<"B", "A", "C", "K">>

\* Button::new
NewButton(label, tag, region) ==
    [label |-> label, tag |-> tag, region |-> region, is_visible |-> TRUE]

\* Button::contains
Contains(button, point) == button.is_visible /\ point \in button.region

\* Menu::default_buttons
DefaultButtons ==
    << NewButton(LabelPlay, PlayTag, {1}), NewButton(LabelBack, BackTag, {2}) >>

IsPlayback(button) == button.tag = PlayTag \/ button.tag = BackTag

IsSongButton(button) == button.tag.prefix = "song_"

\* a menu that shows every button on both screens
AllVisible(buttons, song_is_empty) ==
    AsSeq([i \in 1..Len(buttons) |-> [buttons[i] EXCEPT !.is_visible = TRUE]])

\* Menu::update_button_visibility
UpdateButtonVisibility(buttons, song_is_empty) ==
    AsSeq([i \in 1..Len(buttons) |->
        IF IsPlayback(buttons[i])
        THEN [buttons[i] EXCEPT !.is_visible = ~song_is_empty]
        ELSE IF IsSongButton(buttons[i])
        THEN [buttons[i] EXCEPT !.is_visible = song_is_empty]
        ELSE buttons[i]])

\* the `retain` of lines 233-234 and 367-368
RetainPlayback(buttons) == SelectSeq(buttons, IsPlayback)

\* Menu::get_song_names: the titles of the files listed
GetSongNames(listing) ==
    AsSeq([i \in 1..Len(listing.files) |-> GetTitleFromFile(listing.files[i])])

\* Menu::create_song_buttons
CreateSongButtons(buttons, listing) ==
    IF listing.ok
    THEN RetainPlayback(buttons) \o
         AsSeq([i \in 1..Len(listing.files) |->
             NewButton(GetSongNames(listing)[i], SongTag(i - 1), {i})])
    ELSE buttons

\* Menu::get_button_mut: the index of the first visible button with the tag, or 0
GetButton(buttons, tag) ==
    LET found == {i \in 1..Len(buttons) : buttons[i].tag = tag /\ buttons[i].is_visible}
    IN  IF found = {} THEN 0 ELSE CHOOSE i \in found : \A j \in found : i <= j

\* Menu::update_play_button_label
UpdatePlayButtonLabel(buttons, playing) ==
    LET i == GetButton(buttons, PlayTag)
    IN  IF i = 0 THEN buttons
        ELSE [buttons EXCEPT ![i].label = IF playing THEN LabelPause ELSE LabelPlay]

\* a click test that fires for as long as the mouse is held down
IsPressed(is_mouse_pressed, was_mouse_pressed) == is_mouse_pressed

\* line 217: a new press
IsClick(is_mouse_pressed, was_mouse_pressed) == is_mouse_pressed /\ ~was_mouse_pressed

\* lines 218-219: the first visible button containing the mouse, or 0
FirstHit(buttons, mouse) ==
    LET found == {i \in 1..Len(buttons) :
                     buttons[i].is_visible /\ Contains(buttons[i], mouse)}
    IN  IF found = {} THEN 0 ELSE CHOOSE i \in found : \A j \in found : i <= j

\* lines 70-90 of Menu::update: the buttons and the flag before the click is handled
BeforeClick(m, s, listing) ==
    LET shown  == UpdateButtonVisibility(m.buttons, IsEmpty(s))
        create == IsEmpty(s) /\ ~m.song_buttons_created
        made   == IF create THEN CreateSongButtons(shown, listing) ELSE shown
    IN  [m EXCEPT !.buttons = UpdatePlayButtonLabel(made, m.is_playing),
                  !.song_buttons_created = create \/ @]

\* the button whose action fires in this update, or 0
Clicked(m, mouse, is_mouse_pressed) ==
    IF IsClick(is_mouse_pressed, m.was_mouse_pressed)
    THEN FirstHit(m.buttons, mouse) ELSE 0

(***************************************************************************)
(* History of a load.                                                      *)
(***************************************************************************)
NoLoad ==
    [valid |-> FALSE, file |-> <<>>, src |-> BadFile, dev |-> NoDevice,
     srcOk |-> FALSE, raw |-> <<>>, fileRate |-> 0,
     path |-> <<>>, rate |-> 0, existed |-> FALSE, readFailed |-> FALSE,
     hit |-> FALSE, resampled |-> FALSE, saved |-> FALSE, saveOk |-> FALSE,
     samples |-> <<>>, inCache |-> FALSE, held |-> FALSE]

LoadRecord(song_file_name, src, raw, r, env, held) ==
    [valid |-> TRUE, file |-> song_file_name, src |-> src, dev |-> env.dev,
     srcOk |-> LoadWavOk(src, TRUE),
     raw |-> raw[1], fileRate |-> raw[2],
     path |-> r.path, rate |-> r.rate, existed |-> r.existed,
     readFailed |-> r.readFailed, hit |-> r.hit, resampled |-> r.resampled,
     saved |-> r.saved, saveOk |-> r.saved /\ SaveWavOk(env.write),
     samples |-> r.samples, inCache |-> PathExists(r.fs, r.path), held |-> held]

NoCallback ==
    [valid |-> FALSE, id |-> 0, start |-> 0, len |-> 0, out |-> <<>>, read |-> <<>>,
     resumed |-> FALSE]

\* advanced: the update released a stream that had served slots; resumed:
\* the update opened a stream right after such an update
NoUpdate ==
    [valid |-> FALSE, should_play |-> FALSE, was_playing |-> FALSE, canOpen |-> FALSE,
     advanced |-> FALSE, resumed |-> FALSE]

\* Song::from_file(song_file_name) replaces Menu.song; m is the Menu afterwards
Load(song_file_name, src, env, m) ==
    \E raw \in {LoadSource(src)} :
      \E r \in {PrepareAudioData(song_file_name, raw[1], raw[2], cache, env)} :
        /\ loads' = loads + 1
        /\ cache' = r.fs
        /\ song' = NewSong(song_file_name, r.samples, r.rate)
        /\ streams' = DropSong(song, streams)
        /\ menu' = m
        /\ resampleCount' = IF r.resampled THEN Bump(resampleCount, r.path)
                            ELSE resampleCount
        /\ ioFailures' =
             LET a == IF r.readFailed THEN Bump(ioFailures, r.path) ELSE ioFailures
             IN  IF r.saved /\ ~SaveWavOk(env.write) THEN Bump(a, r.path) ELSE a
        /\ lastLoad' = LoadRecord(song_file_name, src, raw, r, env,
                                  song.audio_stream # NoStream)
        /\ lastCb' = NoCallback
        /\ lastUpdate' = NoUpdate
        /\ UNCHANGED fault
        /\ Untouched

\* the rates the probe can resolve for a file rate, over every device
FinalRates(file_sample_rate) ==
    {DetermineFinalSampleRate(dev, file_sample_rate)[2] : dev \in ProbeDevices}

\* the device profiles that resolve `rate` for a file rate.  Profiles that
\* resolve the same rate give the same load: one stands for all of them
\* unless the load tells them apart.
DevicesAt(file_sample_rate, rate, profiles) ==
    LET all == {d \in ProbeDevices :
                   DetermineFinalSampleRate(d, file_sample_rate)[2] = rate}
    IN  IF profiles = "all" THEN all ELSE {CHOOSE d \in all : TRUE}

\* the outcomes the environment can give one load of `file`: the read
\* outcome matters when the cached file exists, the write outcome when
\* save_wav is called, the resampler when it runs.
LoadAny(file, m, opts) ==
    /\ loads < MaxLoads
    /\ \E src \in Sources :
         \E raw \in {LoadSource(src)} :
           \E rate \in FinalRates(raw[2]) :
             \E path \in {CachePath(file, rate)} :
               \E readOk \in IF PathExists(cache, path) THEN BOOLEAN ELSE {TRUE} :
                 \E hit \in {CacheHit(cache, path, readOk)} :
                   \E write \in IF hit THEN {"ok"} ELSE opts.writes :
                     \E kernel \in IF ~hit /\ NeedsResample(raw[2], rate)
                                   THEN opts.kernels ELSE {"hold"} :
                       \E dev \in DevicesAt(raw[2], rate,
                                            IF src.ok THEN "one" ELSE opts.profiles) :
                         Load(file, src, LoadEnv(dev, readOk, write, kernel), m)

(***************************************************************************)
(* Actions.                                                                *)
(***************************************************************************)
\* what a step of the menu that loads nothing leaves in the history
Quiet ==
    /\ lastLoad' = NoLoad
    /\ lastCb' = NoCallback
    /\ lastUpdate' = NoUpdate
    /\ UNCHANGED <<cache, loads, resampleCount, ioFailures, fault>>
    /\ Untouched

\* read_dir is consulted only when the song buttons are created (line 84)
ListingsFor(m, s) ==
    IF IsEmpty(s) /\ ~m.song_buttons_created THEN Listings
    ELSE {[ok |-> FALSE, files |-> <<>>]}

\* Menu::update with a click on a song button: the song is loaded
MenuLoad ==
    \E mouse \in Points, listing \in ListingsFor(menu, song) :
        LET m   == BeforeClick(menu, song, listing)
            hit == Clicked(m, mouse, TRUE)
        IN  /\ loads < MaxMenuLoads
            /\ hit # 0
            /\ IsSongButton(m.buttons[hit])
            /\ LoadAny(GetFileFromTitle(m.buttons[hit].label),
                       [m EXCEPT !.buttons = RetainPlayback(m.buttons),
                                 !.song_buttons_created = FALSE,
                                 !.was_mouse_pressed = TRUE],
                       MenuLoads)

\* Menu::update with a click on the back button
MenuBack ==
    \E mouse \in Points, listing \in ListingsFor(menu, song) :
        LET m   == BeforeClick(menu, song, listing)
            hit == Clicked(m, mouse, TRUE)
        IN  /\ hit # 0
            /\ m.buttons[hit].tag = BackTag
            /\ song' = EmptySong
            /\ streams' = DropSong(song, streams)
            /\ menu' = [m EXCEPT !.is_playing = FALSE,
                                 !.song_buttons_created = FALSE,
                                 !.was_mouse_pressed = TRUE]
            /\ Quiet

\* Menu::update with a click on the play button
MenuPlay ==
    \E mouse \in Points, listing \in ListingsFor(menu, song) :
        LET m   == BeforeClick(menu, song, listing)
            hit == Clicked(m, mouse, TRUE)
        IN  /\ hit # 0
            /\ m.buttons[hit].tag = PlayTag
            /\ menu' = [m EXCEPT !.is_playing = ~m.is_playing,
                                 !.was_mouse_pressed = TRUE]
            /\ UNCHANGED <<song, streams>>
            /\ Quiet

\* Menu::update in which no button's action fires
MenuIdle ==
    \E mouse \in Points, pressed \in BOOLEAN, listing \in ListingsFor(menu, song) :
        LET m   == BeforeClick(menu, song, listing)
            hit == Clicked(m, mouse, pressed)
        IN  /\ hit = 0
            /\ menu' = [m EXCEPT !.was_mouse_pressed = pressed]
            /\ UNCHANGED <<song, streams>>
            /\ Quiet

\* the handle the next stream gets
FreshId(open) == CHOOSE i \in FreeIds(open) : \A j \in FreeIds(open) : i <= j

\* the device is consulted only when Song::update calls Song::play
DevicesFor(s, should_play) ==
    IF should_play /\ ~s.is_playing /\ s.audio_stream = NoStream THEN PlayDevices
    ELSE {PlayDevice(FALSE, FALSE, FALSE, FALSE, FALSE)}

\* Song::update(should_play) on Menu.song
SongUpdate ==
    \E should_play \in BOOLEAN :
      \E dev \in DevicesFor(song, should_play) :
        /\ FreeIds(streams) # {}
        /\ \E r \in {Update(song, streams, should_play, dev, FreshId(streams))} :
             /\ song' = r[1]
             /\ streams' = r[2]
        /\ lastUpdate' = [valid |-> TRUE, should_play |-> should_play,
                          was_playing |-> song.is_playing, canOpen |-> CanOpen(dev),
                          advanced |-> \E id \in DOMAIN streams \ DOMAIN streams' :
                                           streams[id].count > 0,
                          resumed |-> /\ lastUpdate.advanced
                                      /\ DOMAIN streams' # DOMAIN streams]
        /\ lastLoad' = NoLoad
        /\ lastCb' = NoCallback
        /\ UNCHANGED <<menu, cache, loads, resampleCount, ioFailures, fault>>
        /\ Untouched

\* a stream that stops once its cursor has reached the end of the buffer
StopAtEnd(st, count) ==
    [st EXCEPT !.count = count, !.running = count < Len(st.buffer)]

\* the stream after a block: the callback writes the cursor and nothing else
\* (line 379)
AfterBlock(st, count) == [st EXCEPT !.count = count]

\* the device asks a running stream for a block of n samples
Callback ==
    \E id \in DOMAIN streams, n \in 0..MaxBlock :
        LET st == streams[id]
            r  == FillBlock(st.buffer, st.count, n)
        IN  /\ st.running
            /\ st.count + n <= MaxCursor
            /\ streams' = [streams EXCEPT ![id] = AfterBlock(st, r.count)]
            /\ lastCb' = [valid |-> TRUE, id |-> id, start |-> st.count,
                          len |-> Len(st.buffer), out |-> r.out, read |-> r.read,
                          resumed |-> lastUpdate.resumed]
            /\ fault' = (fault \/ r.fault)
            /\ lastLoad' = NoLoad
            /\ lastUpdate' = NoUpdate
            /\ UNCHANGED <<cache, song, menu, loads, resampleCount, ioFailures>>
            /\ Untouched

Init ==
    /\ cache = InitialCache
    /\ song = EmptySong
    /\ streams = EmptyFn
    /\ menu = [is_playing |-> FALSE, was_mouse_pressed |-> FALSE,
               song_buttons_created |-> FALSE, buttons |-> DefaultButtons]
    /\ loads = 0
    /\ resampleCount = EmptyFn
    /\ ioFailures = EmptyFn
    /\ lastLoad = NoLoad
    /\ lastCb = NoCallback
    /\ lastUpdate = NoUpdate
    /\ probe = NoProbe
    /\ cbStream = NoCbStream
    /\ cbThreads = IdleThreads
    /\ mutex = FreeMutexes
    /\ served = <<>>
    /\ control = ControlIdle
    /\ fault = FALSE

Next ==
    \/ MenuLoad
    \/ MenuBack
    \/ MenuPlay
    \/ MenuIdle
    \/ SongUpdate
    \/ Callback

Spec == Init /\ [][Next]_vars

\* Song::from_file called on its own, any number of times: a sequence of loads
FromFile == \E file \in {FileA, FileBC} : LoadAny(file, menu, AnyLoad)

SpecLoads == Init /\ [][FromFile]_vars

\* the first load of a track at a rate the device supports, with no cache
\* file yet: the source holds any 16-bit value
CopyLoad ==
    /\ ~PathExists(cache, CachePath(FileA, 2))
    /\ \E s \in I16Min..I16Max, n \in 1..MaxCodecLen :
         \E dev \in DevicesAt(2, 2, "one") :
           Load(FileA, WavFile(2, [i \in 1..n |-> s]),
                LoadEnv(dev, TRUE, "ok", "hold"), menu)

SpecCodec == Init /\ [][CopyLoad]_vars

\* what a step that only applies a function leaves alone
ProgramIdle ==
    UNCHANGED <<cache, song, streams, menu, loads, resampleCount, ioFailures,
                lastLoad, lastCb, lastUpdate, fault>>

\* what a step that applies a function leaves alone
CallbacksIdle == UNCHANGED <<cbStream, cbThreads, mutex, served, control>>

\* the characters of the file names tried
NameChars == {"a", "1", "sharp_s"}

\* the words of at most MaxWordLen characters
NameWords == UNION {[1..n -> NameChars] : n \in 1..MaxWordLen}

\* the file names: at most MaxWords words joined by hyphens, then ".wav"
FileNames ==
    {JoinWith(ws, "-") \o <<".", "w", "a", "v">> :
        ws \in UNION {[1..n -> NameWords] : n \in 1..MaxWords}}

\* a file name is turned into a title (menu.rs line 353) and the title back
\* into a file name (menu.rs line 231)
NameRoundTrip ==
    /\ probe = NoProbe
    /\ \E f \in FileNames :
        /\ probe' = [kind |-> "name", file |-> f, title |-> GetTitleFromFile(f),
                     back |-> GetFileFromTitle(GetTitleFromFile(f))]
        /\ ProgramIdle
        /\ CallbacksIdle

SpecNames == Init /\ [][NameRoundTrip]_vars

\* the sample rates tried by the probe specification
ProbeRates == 1..MaxRate

\* the lists of supported (min, max) ranges: any order, overlapping or not
RangeLists ==
    UNION {[1..n -> {<<lo, hi>> : lo \in ProbeRates, hi \in ProbeRates}] :
              n \in 0..MaxRanges}

\* the device profiles: no device, or a device whose queries succeed or fail
DeviceProfiles ==
    {NoDevice} \cup
    {[present |-> TRUE, cfgOk |-> c, ranges |-> IF c THEN r ELSE <<>>,
      defOk |-> d, defRate |-> q] :
        c \in BOOLEAN, r \in RangeLists, d \in BOOLEAN, q \in ProbeRates}

\* determine_final_sample_rate is called with a file rate on a device profile
RateProbe ==
    /\ probe = NoProbe
    /\ \E file_sample_rate \in ProbeRates, dev \in DeviceProfiles :
        /\ probe' = [kind |-> "rate", file_sample_rate |-> file_sample_rate,
                     dev |-> dev,
                     result |-> DetermineFinalSampleRate(dev, file_sample_rate)]
        /\ ProgramIdle
        /\ CallbacksIdle

SpecProbe == Init /\ [][RateProbe]_vars

\* the sample values of the inputs of the resampling specification
InputValues == {DecodeSample(16385), DecodeSample(-3)}

\* the inputs: every sequence of at most MaxInput samples
ResampleInputs == UNION {[1..n -> InputValues] : n \in 0..MaxInput}

\* resample_to_device_rate is called with an input and a pair of rates;
\* with equal rates and the kernel "hold" resampler.process is the identity
ResampleProbe ==
    /\ probe = NoProbe
    /\ \E input \in ResampleInputs, from_rate \in ProbeRates, to_rate \in ProbeRates,
          kernel \in Kernels :
        /\ probe' = [kind |-> "resample", input |-> input,
                     from_rate |-> from_rate, to_rate |-> to_rate, kernel |-> kernel,
                     input_per_channel |-> InputPerChannel(input, Channels),
                     chunks |-> Chunks(input, from_rate, to_rate, Channels),
                     all_resampled |->
                         AllResampled(input, from_rate, to_rate, Channels, kernel),
                     output |->
                         ResampleToDeviceRate(input, from_rate, to_rate, Channels, kernel)]
        /\ ProgramIdle
        /\ CallbacksIdle

SpecResample == Init /\ [][ResampleProbe]_vars

(***************************************************************************)
(* The output callback step by step, lines 370-381: invocations of the     *)
(* closure on one stream, interleaved at the grain of its statements.      *)
(***************************************************************************)
\* the buffers of the streams followed
CbBuffers == {<<>>, DecodeSamples(<<7>>), DecodeSamples(<<7, 8>>)}

\* a mutex taken without waiting for its holder
AlwaysFree(holder) == TRUE

\* Mutex::lock returns when nobody holds the mutex
MutexFree(holder) == holder = NoHolder

\* the slots asked for by the invocations in progress
RECURSIVE SlotsPending(_, _)
SlotsPending(threads, t) ==
    IF t = 0 THEN 0 ELSE threads[t].left + SlotsPending(threads, t - 1)

\* what a step of a callback leaves alone
CbFrame == ProgramIdle /\ UNCHANGED <<probe, control>>

\* lines 362-363 and 366: Song::play shares the buffer, makes the cursor
\* from current_frame (0 since from_file, line 70) and builds the stream
CbOpen ==
    /\ ~cbStream.open
    /\ \E buffer \in CbBuffers :
         cbStream' = [open |-> TRUE, buffer |-> buffer, count |-> 0]
    /\ UNCHANGED <<cbThreads, mutex, served>>
    /\ CbFrame

\* the device invokes the closure for a block of n slots
CbBegin(t) ==
    /\ cbStream.open
    /\ cbThreads[t].pc = "idle"
    /\ \E n \in 0..MaxBlock :
         /\ Len(served) + SlotsPending(cbThreads, MaxThreads) + n <= MaxCursor
         /\ cbThreads' = [cbThreads EXCEPT ![t] = [pc |-> "lock_data", left |-> n]]
    /\ UNCHANGED <<cbStream, mutex, served>>
    /\ CbFrame

\* line 371: audio_data.lock()
CbLockData(t) ==
    /\ cbThreads[t].pc = "lock_data"
    /\ MutexFree(mutex.audio_data)
    /\ mutex' = [mutex EXCEPT !.audio_data = t]
    /\ cbThreads' = [cbThreads EXCEPT ![t].pc = "lock_count"]
    /\ UNCHANGED <<cbStream, served>>
    /\ CbFrame

\* line 372: frame_count.lock()
CbLockCount(t) ==
    /\ cbThreads[t].pc = "lock_count"
    /\ MutexFree(mutex.frame_count)
    /\ mutex' = [mutex EXCEPT !.frame_count = t]
    /\ cbThreads' = [cbThreads EXCEPT ![t].pc = "slot"]
    /\ UNCHANGED <<cbStream, served>>
    /\ CbFrame

\* lines 373-378: the next slot is filled from the cursor
CbFill(t) ==
    /\ cbThreads[t].pc = "slot"
    /\ cbThreads[t].left > 0
    /\ served' = Append(served, [thread |-> t, count |-> cbStream.count,
                                 value |-> SlotValue(cbStream.buffer, cbStream.count)])
    /\ cbThreads' = [cbThreads EXCEPT ![t].pc = "advance"]
    /\ UNCHANGED <<cbStream, mutex>>
    /\ CbFrame

\* line 379: *count += 1
CbAdvance(t) ==
    /\ cbThreads[t].pc = "advance"
    /\ cbStream' = [cbStream EXCEPT !.count = NextCount(cbStream.count)]
    /\ cbThreads' = [cbThreads EXCEPT ![t] = [pc |-> "slot", left |-> @.left - 1]]
    /\ UNCHANGED <<mutex, served>>
    /\ CbFrame

\* line 381: the closure returns and drops its guards, the one declared
\* last first: frame_count
CbUnlockCount(t) ==
    /\ cbThreads[t].pc = "slot"
    /\ cbThreads[t].left = 0
    /\ mutex' = [mutex EXCEPT !.frame_count = NoHolder]
    /\ cbThreads' = [cbThreads EXCEPT ![t].pc = "unlock_data"]
    /\ UNCHANGED <<cbStream, served>>
    /\ CbFrame

\* a closure that returns with the mutex of audio_data still held
CbKeepData(t) ==
    /\ cbThreads[t].pc = "unlock_data"
    /\ cbThreads' = [cbThreads EXCEPT ![t].pc = "idle"]
    /\ UNCHANGED <<cbStream, mutex, served>>
    /\ CbFrame

\* line 381: then audio_data
CbUnlockData(t) ==
    /\ cbThreads[t].pc = "unlock_data"
    /\ mutex' = [mutex EXCEPT !.audio_data = NoHolder]
    /\ cbThreads' = [cbThreads EXCEPT ![t].pc = "idle"]
    /\ UNCHANGED <<cbStream, served>>
    /\ CbFrame

CbNext ==
    \/ CbOpen
    \/ \E t \in 1..MaxThreads : CbBegin(t)
    \/ \E t \in 1..MaxThreads : CbLockData(t)
    \/ \E t \in 1..MaxThreads : CbLockCount(t)
    \/ \E t \in 1..MaxThreads : CbFill(t)
    \/ \E t \in 1..MaxThreads : CbAdvance(t)
    \/ \E t \in 1..MaxThreads : CbUnlockCount(t)
    \/ \E t \in 1..MaxThreads : CbUnlockData(t)

SpecCallbacks == Init /\ [][CbNext]_vars

(***************************************************************************)
(* Song::is_empty on the control thread, line 163, beside the callbacks.   *)
(***************************************************************************)
\* the control thread as a holder of a mutex
ControlThread == MaxThreads + 1

\* what a step of is_empty leaves alone
IsEmptyFrame ==
    ProgramIdle /\ UNCHANGED <<probe, cbStream, cbThreads, served>>

\* Menu::update asks whether the song is empty (menu.rs lines 84 and 174)
IsEmptyCall ==
    /\ cbStream.open
    /\ control.pc = "idle"
    /\ control' = [control EXCEPT !.pc = "lock"]
    /\ UNCHANGED mutex
    /\ IsEmptyFrame

\* line 163: self.audio_data.lock()
IsEmptyLock ==
    /\ control.pc = "lock"
    /\ MutexFree(mutex.audio_data)
    /\ mutex' = [mutex EXCEPT !.audio_data = ControlThread]
    /\ control' = [control EXCEPT !.pc = "locked"]
    /\ IsEmptyFrame

\* line 163: .is_empty() is read and the guard, a temporary, is dropped
IsEmptyReturn ==
    /\ control.pc = "locked"
    /\ mutex' = [mutex EXCEPT !.audio_data = NoHolder]
    /\ control' = [pc |-> "idle", result |-> Len(cbStream.buffer) = 0]
    /\ IsEmptyFrame

\* the device invokes the closure, for as many slots as this specification
\* follows
LocksBegin(t) ==
    /\ CbBegin(t)
    /\ Len(served) + SlotsPending(cbThreads', MaxThreads) <= MaxLockSlots

LocksNext ==
    \/ CbOpen
    \/ \E t \in 1..MaxThreads : LocksBegin(t)
    \/ \E t \in 1..MaxThreads : CbLockData(t)
    \/ \E t \in 1..MaxThreads : CbLockCount(t)
    \/ \E t \in 1..MaxThreads : CbFill(t)
    \/ \E t \in 1..MaxThreads : CbAdvance(t)
    \/ \E t \in 1..MaxThreads : CbUnlockCount(t)
    \/ \E t \in 1..MaxThreads : CbUnlockData(t)
    \/ IsEmptyCall
    \/ IsEmptyLock
    \/ IsEmptyReturn

\* a thread that can take a step takes it in the end; a thread waiting for
\* a mutex that is free again and again gets it in the end.  Nothing makes
\* the device invoke the callback nor the menu call is_empty.
LocksFairness ==
    /\ \A t \in 1..MaxThreads :
         /\ SF_vars(CbLockData(t))
         /\ SF_vars(CbLockCount(t))
         /\ WF_vars(CbFill(t))
         /\ WF_vars(CbAdvance(t))
         /\ WF_vars(CbUnlockCount(t))
         /\ WF_vars(CbUnlockData(t))
    /\ SF_vars(IsEmptyLock)
    /\ WF_vars(IsEmptyReturn)

SpecLocks == Init /\ [][LocksNext]_vars /\ LocksFairness

(***************************************************************************)
(* Properties.                                                             *)
(***************************************************************************)

\* C1, as the specification states it: over any sequence of loads the
\* resampler is invoked at most once for each (title, target rate) pair,
\* whatever the outcomes of the cache write and of the cache read.
C1_AtMostOncePerPair ==
    \A p \in DOMAIN resampleCount : resampleCount[p] <= 1

\* C1, amended: for each (title, target rate) pair the resampler is invoked
\* at most once, plus once for each cache write or cache read of that pair
\* that failed.
C1_OncePlusFailures ==
    \A p \in DOMAIN resampleCount : resampleCount[p] <= 1 + CountOf(ioFailures, p)

\* two loads of one pair: the first resampled and saved, the second was a hit
C1_Witness ==
    /\ loads = 2
    /\ lastLoad.valid /\ lastLoad.hit /\ lastLoad.fileRate # lastLoad.rate
    /\ CountOf(resampleCount, lastLoad.path) = 1
    /\ CountOf(ioFailures, lastLoad.path) = 0

\* C2: two calls of prepare_audio_data in succession with the same inputs:
\* the second returns the sample sequence the first returned, element for
\* element, and writes no file once the first has created the cache entry.
\* Stated for the calls whose cache reads and writes all succeed.
C2_SecondCallIdentical ==
    [][ (/\ lastLoad.valid /\ lastLoad'.valid
         /\ lastLoad'.file = lastLoad.file
         /\ lastLoad'.raw = lastLoad.raw
         /\ lastLoad'.fileRate = lastLoad.fileRate
         /\ lastLoad'.rate = lastLoad.rate
         /\ ~lastLoad.readFailed /\ (lastLoad.saved => lastLoad.saveOk)
         /\ ~lastLoad'.readFailed /\ (lastLoad'.saved => lastLoad'.saveOk))
        => /\ lastLoad'.samples = lastLoad.samples
           /\ (lastLoad.saveOk => ~lastLoad'.saved) ]_vars

\* C3, as the specification states it: a file that exists at the cache path
\* when the call starts is neither deleted nor written, decodable or not.
C3_ExistingFileUntouched ==
    [][ (lastLoad'.valid /\ lastLoad'.existed)
        => /\ lastLoad'.path \in DOMAIN cache'
           /\ cache'[lastLoad'.path] = cache[lastLoad'.path] ]_vars

\* C3, amended: a file that exists at the cache path when the call starts is
\* never deleted, and it is not written when the call opens and decodes it.
C3_DecodedFileUntouched ==
    [][ (lastLoad'.valid /\ lastLoad'.existed)
        => /\ lastLoad'.path \in DOMAIN cache'
           /\ (~lastLoad'.readFailed
                 => cache'[lastLoad'.path] = cache[lastLoad'.path]) ]_vars

\* a load found a decodable file at its cache path, which is still there
C3_Witness ==
    /\ lastLoad.valid /\ lastLoad.existed /\ ~lastLoad.readFailed
    /\ lastLoad.path \in DOMAIN InitialCache
    /\ cache[lastLoad.path] = InitialCache[lastLoad.path]

\* C4: in every callback invocation each output slot receives
\* buffer[cursor] when cursor < N and 0.0 when cursor >= N, the cursor
\* advances by one per slot, and no index >= N is read, also for N = 0.
C4_CallbackSlots ==
    /\ ~fault
    /\ lastCb.valid =>
         LET st == streams[lastCb.id]
         IN  /\ Len(st.buffer) = lastCb.len
             /\ Len(lastCb.read) = Len(lastCb.out)
             /\ st.count = lastCb.start + Len(lastCb.out)
             /\ \A k \in 1..Len(lastCb.out) :
                  /\ lastCb.read[k] = lastCb.start + (k - 1)
                  /\ lastCb.out[k] = IF lastCb.read[k] < lastCb.len
                                     THEN st.buffer[lastCb.read[k] + 1]
                                     ELSE F32Zero

\* a block that starts inside a buffer and runs past its end
C4_Witness ==
    /\ lastCb.valid
    /\ lastCb.len > 0
    /\ lastCb.start < lastCb.len
    /\ lastCb.start + Len(lastCb.out) > lastCb.len
    /\ streams[lastCb.id].buffer[1] # F32Zero

\* C5: update(true) on a Stopped song whose stream cannot be opened leaves
\* the song Stopped: is_playing() is false and no stream handle is held.
C5_FailedOpenStaysStopped ==
    [][ (/\ lastUpdate'.valid /\ lastUpdate'.should_play /\ ~lastUpdate'.canOpen
         /\ ~song.is_playing /\ song.audio_stream = NoStream)
        => (~song'.is_playing /\ song'.audio_stream = NoStream) ]_vars

\* the rate C6 expects after a failed decode: the device default when a
\* device answers the query with no range that holds 44100 Hz and has a
\* default configuration, 44100 Hz otherwise
C6_Rate(dev) ==
    IF /\ dev.present /\ dev.cfgOk /\ dev.defOk
       /\ \A i \in 1..Len(dev.ranges) :
            dev.ranges[i][1] > FallbackRate \/ dev.ranges[i][2] < FallbackRate
    THEN dev.defRate ELSE FallbackRate

\* C6, as the specification states it: after a failed decode from_file
\* returns a song with an empty buffer and the target rate 44100 Hz, for
\* every device profile and every content of the cache directory.
C6_EmptyAt44100 ==
    (lastLoad.valid /\ ~lastLoad.srcOk)
        => (IsEmpty(song) /\ song.final_sample_rate = FallbackRate)

\* C6, amended: after a failed decode from_file returns a song; its target
\* rate is 44100 Hz unless the device lists no range holding 44100 Hz and
\* has a default configuration, whose rate it then is; its buffer is empty
\* unless a decodable cache file exists for the title and that rate, whose
\* samples it then holds.
C6_FallbackThroughProbeAndCache ==
    (lastLoad.valid /\ ~lastLoad.srcOk)
        => /\ song.final_sample_rate = C6_Rate(lastLoad.dev)
           /\ song.audio_data =
                IF lastLoad.existed /\ ~lastLoad.readFailed
                THEN DecodeSamples(cache[<<song.title, song.final_sample_rate>>].data)
                ELSE <<>>
           /\ ~song.is_playing /\ song.audio_stream = NoStream

\* a failed decode on a device that supports 44100 Hz, nothing cached
C6_Witness ==
    /\ lastLoad.valid /\ ~lastLoad.srcOk /\ ~lastLoad.existed
    /\ lastLoad.dev.present /\ lastLoad.dev.cfgOk
    /\ song.final_sample_rate = FallbackRate
    /\ IsEmpty(song)

\* C7: loading a track (from_file on a song selection, Song::empty on back)
\* yields a song that is Stopped, with cursor 0 and the new buffer, and the
\* stream the replaced song held has been released.
C7_LoadYieldsStopped ==
    [][ (lastLoad'.valid \/ (song' = EmptySong /\ ~lastLoad'.valid /\ MenuBack))
        => /\ ~song'.is_playing
           /\ song'.audio_stream = NoStream
           /\ song'.current_frame = 0
           /\ song'.audio_data = (IF lastLoad'.valid THEN lastLoad'.samples ELSE <<>>)
           /\ (song.audio_stream # NoStream
                 => song.audio_stream \notin DOMAIN streams') ]_vars

\* a song was loaded over one that held a stream; no stream is left open
C7_Witness ==
    /\ lastLoad.valid /\ lastLoad.held
    /\ ~IsEmpty(song)
    /\ ~song.is_playing /\ song.audio_stream = NoStream
    /\ DOMAIN streams = {}

\* C8: update(true) on a Playing song and update(false) on a Stopped song
\* open no stream, release none, and leave the handle, the cursor, the
\* buffer and the flag as they were.
C8_UpdateIdempotent ==
    [][ (lastUpdate'.valid /\ lastUpdate'.should_play = song.is_playing)
        => (song' = song /\ streams' = streams) ]_vars

\* update(true) was applied to a Playing song whose stream has advanced
C8_Witness ==
    /\ lastUpdate.valid /\ lastUpdate.should_play /\ lastUpdate.was_playing
    /\ song.is_playing /\ song.audio_stream # NoStream
    /\ streams[song.audio_stream].count > 0

\* C9: a load whose file rate equals the resolved target rate does not
\* invoke the resampler, on a miss as on a hit.
C9_EqualRatesNoResample ==
    [][ (lastLoad'.valid /\ lastLoad'.fileRate = lastLoad'.rate)
        => resampleCount' = resampleCount ]_vars

\* an equal-rate load of a decoded source missed the cache and saved a copy
C9_Witness ==
    /\ lastLoad.valid /\ lastLoad.srcOk /\ lastLoad.fileRate = lastLoad.rate
    /\ ~lastLoad.hit /\ lastLoad.saveOk
    /\ resampleCount = EmptyFn

\* C10: an equal-rate load with no cache file writes a cache file that holds
\* the source's 16-bit samples (encode(decode(s)) = s for every s) and that,
\* decoded again, gives the source decode output, of the same length.
C10_CopyRoundTrip ==
    (/\ lastLoad.valid /\ lastLoad.srcOk /\ lastLoad.fileRate = lastLoad.rate
     /\ ~lastLoad.existed /\ lastLoad.saveOk)
        => /\ cache[lastLoad.path].ok
           /\ Len(cache[lastLoad.path].data) = Len(lastLoad.src.data)
           /\ cache[lastLoad.path].data = lastLoad.src.data
           /\ LoadWav(cache[lastLoad.path])[1] = lastLoad.raw

\* the copy of a source that holds the least 16-bit value
C10_Witness ==
    /\ lastLoad.valid /\ lastLoad.srcOk /\ lastLoad.fileRate = lastLoad.rate
    /\ ~lastLoad.existed /\ lastLoad.saveOk
    /\ lastLoad.src.data = <<I16Min, I16Min>>
    /\ cache[lastLoad.path].data = <<I16Min, I16Min>>

\* the first characters of the words of a file name
C11_FirstChars(f) ==
    {w[1] : w \in {SplitOn(SubSeq(f, 1, Len(f) - 4), "-")[i] :
                      i \in 1..Len(SplitOn(SubSeq(f, 1, Len(f) - 4), "-"))}}

\* C11, as the specification states it: for every file name f of non-empty
\* lowercase words joined by single hyphens and followed by ".wav",
\* get_file_from_title(get_title_from_file(f)) = f.
C11_NameRoundTrip ==
    probe.kind = "name" => probe.back = probe.file

\* C11, amended: the round trip gives f back when the first character of
\* every word is an ASCII lowercase letter or a digit.
C11_AsciiNameRoundTrip ==
    (probe.kind = "name" /\ C11_FirstChars(probe.file) \subseteq {"a", "1"})
        => probe.back = probe.file

\* a name of two words went to a title and back
C11_Witness ==
    /\ probe.kind = "name"
    /\ probe.file = <<"a", "sharp_s", "-", "1", "a", ".", "w", "a", "v">>
    /\ probe.title = <<"A", "sharp_s", " ", "1", "a">>
    /\ probe.back = probe.file

\* C12, as the specification states it, on the devices whose supported-config
\* query succeeds: determine_final_sample_rate returns file_rate when it lies
\* within at least one supported range, otherwise the device's default output
\* rate.
C12_FileRateOrDefault ==
    (probe.kind = "rate" /\ probe.dev.present /\ probe.dev.cfgOk)
        => IF InSomeRange(probe.file_sample_rate, probe.dev.ranges)
           THEN probe.result[2] = probe.file_sample_rate
           ELSE probe.dev.defOk /\ probe.result[2] = probe.dev.defRate

\* C12, amended: on a device whose supported-config query succeeds the probe
\* returns file_rate when it lies within at least one range (bounds
\* inclusive, ranges in any order, overlapping or not); otherwise the default
\* output rate when the default-config query succeeds, and file_rate when it
\* fails.
C12_FileRateOrDefaultIfKnown ==
    (probe.kind = "rate" /\ probe.dev.present /\ probe.dev.cfgOk)
        => LET within == \E i \in 1..Len(probe.dev.ranges) :
                            /\ probe.dev.ranges[i][1] <= probe.file_sample_rate
                            /\ probe.file_sample_rate <= probe.dev.ranges[i][2]
           IN  probe.result =
                   IF within THEN <<TRUE, probe.file_sample_rate>>
                   ELSE IF probe.dev.defOk THEN <<FALSE, probe.dev.defRate>>
                   ELSE <<FALSE, probe.file_sample_rate>>

\* the file rate lies in the second of two overlapping ranges only, at its
\* upper bound, and is returned
C12_Witness ==
    /\ probe.kind = "rate"
    /\ probe.file_sample_rate = 3
    /\ probe.dev.present /\ probe.dev.cfgOk
    /\ probe.dev.ranges = <<<<1, 2>>, <<2, 3>>>>
    /\ probe.dev.defOk /\ probe.dev.defRate = 1
    /\ probe.result = <<TRUE, 3>>

\* C13: with no output device the probe returns the input file_rate, for
\* every file_rate.
C13_NoDeviceKeepsFileRate ==
    (probe.kind = "rate" /\ ~probe.dev.present)
        => probe.result[2] = probe.file_sample_rate

\* the probe ran without a device
C13_Witness ==
    /\ probe.kind = "rate"
    /\ probe.dev = NoDevice
    /\ probe.file_sample_rate = 2
    /\ probe.result = <<FALSE, 2>>

\* C14: when the device is present but its supported-config query errors,
\* the probe reports no native-rate support and resolves the device's own
\* default sample rate.
C14_QueryErrorGivesDefault ==
    (probe.kind = "rate" /\ probe.dev.present /\ ~probe.dev.cfgOk /\ probe.dev.defOk)
        => probe.result = <<FALSE, probe.dev.defRate>>

\* C15: a load that finds a decodable cached file for its (title, target
\* rate) returns exactly the samples decoded from that file, with the target
\* rate as its rate whatever rate the file declares, and without invoking the
\* resampler or using the source samples.
C15_HitReturnsCachedSamples ==
    [][ (lastLoad'.valid /\ lastLoad'.existed /\ ~lastLoad'.readFailed)
        => /\ song'.audio_data = DecodeSamples(cache[lastLoad'.path].data)
           /\ song'.final_sample_rate = lastLoad'.path[2]
           /\ resampleCount' = resampleCount
           /\ cache' = cache ]_vars

\* a hit on a cached file that declares another rate than the target rate
\* and holds other samples than the source
C15_Witness ==
    /\ lastLoad.valid /\ lastLoad.hit /\ lastLoad.srcOk
    /\ cache[lastLoad.path].rate # lastLoad.rate
    /\ lastLoad.raw # lastLoad.samples
    /\ song.audio_data = lastLoad.samples
    /\ song.final_sample_rate = lastLoad.rate

\* C16: in every reachable state, whatever path the load took, the length of
\* the Track's buffer is a multiple of the channel count 2, files holding an
\* odd number of samples included.
C16_BufferWholeFrames ==
    Len(song.audio_data) % Channels = 0

\* C17: when the output of the resampling engine has been written to the
\* cache, decoding the cached file gives as many samples as the engine
\* produced, and the rate the file declares is the target rate.
C17_CachedEngineOutput ==
    (lastLoad.valid /\ lastLoad.resampled /\ lastLoad.saveOk)
        => /\ PathExists(cache, lastLoad.path)
           /\ LoadWavOk(cache[lastLoad.path], TRUE)
           /\ Len(LoadWav(cache[lastLoad.path])[1]) = Len(lastLoad.samples)
           /\ LoadWav(cache[lastLoad.path])[2] = lastLoad.rate

\* the engine produced samples, from a file of another rate, and they were
\* written
C17_Witness ==
    /\ lastLoad.valid /\ lastLoad.resampled /\ lastLoad.saveOk
    /\ Len(lastLoad.samples) > 0
    /\ lastLoad.fileRate # lastLoad.rate
    /\ Len(cache[lastLoad.path].data) = Len(song.audio_data)

\* C18: when the cache write of a load fails, on the equal-rate copy or after
\* resampling, the load still returns the in-memory buffer (the source
\* samples, or the resampled ones) with the target rate, and the Track it
\* builds can be played.
C18_FailedWriteKeepsBuffer ==
    [][ (lastLoad'.valid /\ lastLoad'.saved /\ ~lastLoad'.saveOk)
        => /\ IF lastLoad'.fileRate = lastLoad'.rate
              THEN song'.audio_data = lastLoad'.raw
              ELSE \E kernel \in Kernels :
                     song'.audio_data =
                         ResampleToDeviceRate(lastLoad'.raw, lastLoad'.fileRate,
                                              lastLoad'.rate, Channels, kernel)
           /\ song'.final_sample_rate = lastLoad'.rate
           /\ LET id == FreshId(streams')
                  r  == Update(song', streams', TRUE,
                               PlayDevice(TRUE, TRUE, TRUE, TRUE, TRUE), id)
              IN  /\ r[1].is_playing
                  /\ r[1].audio_stream = id
                  /\ r[2][id].buffer = song'.audio_data
                  /\ r[2][id].running ]_vars

\* a load resampled, could not write its result, and holds it
C18_Witness ==
    /\ lastLoad.valid /\ lastLoad.resampled /\ lastLoad.saved /\ ~lastLoad.saveOk
    /\ Len(lastLoad.samples) > 0
    /\ song.audio_data = lastLoad.samples
    /\ song.audio_data # lastLoad.raw
    /\ ~lastLoad.inCache

\* C19: across callbacks, the cursor at or past the end of the buffer
\* included, the Track stays Playing and its stream stays open and running;
\* a stream is released only by update(false), by the back button or by a
\* new load, never by the end of the track.
C19_StreamOutlivesTrack ==
    [][ /\ lastCb'.valid
            => /\ song' = song
               /\ DOMAIN streams' = DOMAIN streams
               /\ \A id \in DOMAIN streams :
                      streams'[id].running = streams[id].running
        /\ (\E id \in DOMAIN streams : id \notin DOMAIN streams')
            => \/ lastUpdate'.valid /\ ~lastUpdate'.should_play
               \/ lastLoad'.valid
               \/ /\ song' = EmptySong
                  /\ ~lastCb'.valid /\ ~lastUpdate'.valid
                  /\ MenuBack ]_vars

\* a callback ran on the stream of a Playing Track whose cursor had reached
\* the end of a non-empty buffer, and put out silence
C19_Witness ==
    /\ lastCb.valid
    /\ lastCb.len > 0 /\ lastCb.start >= lastCb.len
    /\ Len(lastCb.out) > 0
    /\ song.is_playing
    /\ song.audio_stream = lastCb.id
    /\ streams[lastCb.id].running

\* C20: however the invocations of the callback on one stream interleave, the
\* read and the increment of the cursor are atomic under the lock: no two
\* slots are filled from the same cursor value, no value is skipped, and
\* after k slots the cursor has advanced by k.
C20_CursorAtomic ==
    /\ \A i \in 1..Len(served) :
          /\ served[i].count = i - 1
          /\ served[i].value = SlotValue(cbStream.buffer, i - 1)
    /\ cbStream.count =
          Len(served) - Cardinality({t \in 1..MaxThreads : cbThreads[t].pc = "advance"})
    /\ (\A t \in 1..MaxThreads : cbThreads[t].pc = "idle")
          => cbStream.count = Len(served)

\* two invocations have filled slots of one stream and returned, and the
\* cursor has run past the end of the buffer
C20_Witness ==
    /\ cbStream.open
    /\ Len(cbStream.buffer) > 0
    /\ \E i, j \in 1..Len(served) : served[i].thread # served[j].thread
    /\ \A t \in 1..MaxThreads : cbThreads[t].pc = "idle"
    /\ cbStream.count = Len(served)
    /\ cbStream.count > Len(cbStream.buffer)

\* C21: no load contends with an active callback.  In every interleaving of
\* control-thread operations and callbacks: a stream is bound, by update, to
\* the buffer the Song already holds; the content and length of a buffer
\* bound to an open stream never change; and when the Song's buffer is
\* replaced, the stream bound to the previous one has been released and no
\* stream is opened in that step.
C21_NoLoadContention ==
    [][ /\ \A id \in DOMAIN streams' :
             IF id \in DOMAIN streams
             THEN streams'[id].buffer = streams[id].buffer
             ELSE /\ lastUpdate'.valid
                  /\ streams'[id].buffer = song.audio_data
                  /\ song'.audio_data = song.audio_data
        /\ (lastLoad'.valid \/ song'.audio_data # song.audio_data)
             => /\ DOMAIN streams' \subseteq DOMAIN streams
                /\ song.audio_stream \notin DOMAIN streams' ]_vars

\* a load resampled and installed its buffer while the Song it replaced
\* held a stream; that stream is gone
C21_Witness ==
    /\ lastLoad.valid /\ lastLoad.held
    /\ lastLoad.resampled
    /\ Len(song.audio_data) > 0
    /\ song.audio_data = lastLoad.samples
    /\ streams = EmptyFn

\* the number of frames of channel 0 of an input: F
C22_Frames(input) == (Len(input) + Channels - 1) \div Channels

\* the number of blocks: ceil(F / B)
C22_Blocks(input, from_rate, to_rate) ==
    (C22_Frames(input) + InputFramesNext(from_rate, to_rate) - 1)
        \div InputFramesNext(from_rate, to_rate)

\* C22: in resample_to_device_rate, with F the number of samples of channel
\* 0 and B the resampler's input-frame count, exactly ceil(F/B) blocks are
\* fed to the resampler, every block holds exactly B frames per channel,
\* positions past a channel's true length hold 0.0, and the output length is
\* channels x ceil(F/B) x (output frames per block); an empty input yields
\* an empty output.
C22_BlocksPadded ==
    probe.kind = "resample" =>
        LET B == InputFramesNext(probe.from_rate, probe.to_rate)
            n == C22_Blocks(probe.input, probe.from_rate, probe.to_rate)
        IN  /\ Len(probe.input_per_channel[1]) = C22_Frames(probe.input)
            /\ Len(probe.chunks) = n
            /\ \A b \in 1..n : \A c \in 1..Channels :
                 /\ Len(probe.chunks[b][c]) = B
                 /\ \A i \in 1..B :
                      probe.chunks[b][c][i] =
                          IF (b - 1) * B + i <= Len(probe.input_per_channel[c])
                          THEN probe.input_per_channel[c][(b - 1) * B + i]
                          ELSE F32Zero
            /\ Len(probe.output) =
                   Channels * n * OutputFramesNext(probe.from_rate, probe.to_rate)
            /\ (probe.input = <<>> => probe.output = <<>>)

\* an input of an odd number of samples went through two blocks, the second
\* one partial, between different rates
C22_Witness ==
    /\ probe.kind = "resample"
    /\ probe.from_rate # probe.to_rate
    /\ Len(probe.input) = 5
    /\ Len(probe.chunks) = 2
    /\ Len(probe.input_per_channel[2]) < Len(probe.input_per_channel[1])
    /\ probe.chunks[2][1][1] # F32Zero
    /\ probe.chunks[2][1][2] = F32Zero
    /\ probe.chunks[2][2][1] = F32Zero
    /\ Len(probe.output) > 0

\* C23: de-interleaving places input sample i in channel (i mod channels)
\* at frame (i div channels), re-interleaving places frame j of channel c at
\* output index j*channels + c; so when the per-block resampler is the
\* identity, the output is the input, in order, followed only by zero-valued
\* padding samples.
C23_InterleaveRoundTrip ==
    probe.kind = "resample" =>
        /\ \A i \in 0..(Len(probe.input) - 1) :
             probe.input_per_channel[(i % Channels) + 1][(i \div Channels) + 1]
                 = probe.input[i + 1]
        /\ Len(probe.input_per_channel[1]) + Len(probe.input_per_channel[2])
               = Len(probe.input)
        /\ \A c \in 0..(Channels - 1) :
             /\ Len(probe.all_resampled[c + 1]) * Channels = Len(probe.output)
             /\ \A j \in 0..(Len(probe.all_resampled[c + 1]) - 1) :
                  probe.output[j * Channels + c + 1] = probe.all_resampled[c + 1][j + 1]
        /\ (probe.from_rate = probe.to_rate /\ probe.kernel = "hold")
             => /\ Len(probe.output) >= Len(probe.input)
                /\ SubSeq(probe.output, 1, Len(probe.input)) = probe.input
                /\ \A k \in (Len(probe.input) + 1)..Len(probe.output) :
                     probe.output[k] = F32Zero

\* an input of three samples, not all equal, went through the identity
\* resampler and came back followed by padding
C23_Witness ==
    /\ probe.kind = "resample"
    /\ probe.from_rate = probe.to_rate /\ probe.kernel = "hold"
    /\ Len(probe.input) = 3
    /\ probe.input[1] # probe.input[2]
    /\ probe.input[2] = probe.input[3]
    /\ Len(probe.output) > 3
    /\ SubSeq(probe.output, 1, 3) = probe.input

\* |x| <= 1.0 for an f32 x = s * m * 2^e with m = 0 or 2^23 <= m < 2^24
C24_InUnitRange(x) ==
    \/ x.m = 0
    \/ x.e < -F32Bits
    \/ x.e < 0 /\ -x.e <= F32Bits /\ x.m <= Pow2(-x.e)

\* C24, as the specification states it: for every signed 16-bit sample value
\* s of a source file, from -32768 to 32767, the value load_wav produces
\* lies in the closed range [-1.0, 1.0].
C24_DecodedInUnitRange ==
    (lastLoad.valid /\ lastLoad.srcOk)
        => \A i \in 1..Len(lastLoad.raw) : C24_InUnitRange(lastLoad.raw[i])

\* C24, amended: for every s from -32767 to 32767 the value load_wav
\* produces lies in [-1.0, 1.0]; for s = -32768 it is negative and its
\* magnitude exceeds 1.0.
C24_DecodedInUnitRangeButMin ==
    (lastLoad.valid /\ lastLoad.srcOk)
        => /\ Len(lastLoad.raw) = Len(lastLoad.src.data)
           /\ \A i \in 1..Len(lastLoad.raw) :
                IF lastLoad.src.data[i] = I16Min
                THEN lastLoad.raw[i].s = -1 /\ ~C24_InUnitRange(lastLoad.raw[i])
                ELSE C24_InUnitRange(lastLoad.raw[i])

\* the largest sample value was decoded to 1.0
C24_Witness ==
    /\ lastLoad.valid /\ lastLoad.srcOk
    /\ lastLoad.src.data = <<I16Max>>
    /\ lastLoad.raw = <<[s |-> 1, m |-> Pow2(F32Bits - 1), e |-> 1 - F32Bits]>>

\* C25: Song.current_frame is 0 in every reachable state, every stream
\* opened by play gets a fresh cursor initialised from it, and so, also
\* after a pause followed by a resume, the first output slot of the new
\* stream is served from buffer index 0.
C25_ResumeRestarts ==
    [][ /\ song.current_frame = 0 /\ song'.current_frame = 0
        /\ \A id \in DOMAIN streams' \ DOMAIN streams :
             /\ streams'[id].count = song.current_frame
             /\ streams'[id].count = 0
        /\ (lastCb'.valid /\ Len(lastCb'.out) > 0 /\ streams[lastCb'.id].count = 0)
             => /\ lastCb'.read[1] = 0
                /\ lastCb'.out[1] = IF Len(streams[lastCb'.id].buffer) > 0
                                    THEN streams[lastCb'.id].buffer[1] ELSE F32Zero ]_vars

\* a Track was paused after its stream had served slots, was resumed, and
\* the first slot of the new stream came from the start of the buffer
C25_Witness ==
    /\ lastCb.resumed
    /\ song.is_playing /\ song.audio_stream # NoStream
    /\ lastCb.valid /\ lastCb.id = song.audio_stream
    /\ lastCb.start = 0 /\ Len(lastCb.out) > 0
    /\ Len(song.audio_data) > 0
    /\ lastCb.out[1] = song.audio_data[1]
    /\ song.audio_data[1] # F32Zero

\* C26: in every state reachable through from_file, empty and any sequence
\* of update calls, at most one output stream is held, and a held stream
\* implies that is_playing() is true.
C26_OneStreamOnlyWhilePlaying ==
    /\ Cardinality(DOMAIN streams) <= 1
    /\ DOMAIN streams = (IF song.audio_stream = NoStream THEN {} ELSE {song.audio_stream})
    /\ song.audio_stream # NoStream => song.is_playing

\* update(true) arrived at a loaded Song that was Playing and held a
\* stream: it still holds that one stream
C26_Witness ==
    /\ lastUpdate.valid /\ lastUpdate.should_play /\ lastUpdate.was_playing
    /\ ~IsEmpty(song)
    /\ song.is_playing
    /\ song.audio_stream # NoStream
    /\ DOMAIN streams = {song.audio_stream}
    /\ FreeIds(streams) # {}

\* C27: the control thread and the device callback never deadlock: in every
\* interleaving, every invocation of the callback that has begun and every
\* call of is_empty that has begun completes in the end.
C27_NoDeadlock ==
    /\ \A t \in 1..MaxThreads :
         (cbThreads[t].pc # "idle") ~> (cbThreads[t].pc = "idle")
    /\ (control.pc # "idle") ~> (control.pc = "idle")

\* is_empty waits for the buffer lock while an invocation of the callback
\* holds both locks and a second one waits as well
C27_Witness ==
    /\ control.pc = "lock"
    /\ \E t, u \in 1..MaxThreads :
         /\ mutex.audio_data = t /\ mutex.frame_count = t
         /\ cbThreads[t].pc = "advance"
         /\ cbThreads[u].pc = "lock_data"
    /\ Len(served) = MaxLockSlots

\* C28: after every Menu::update, whatever the mouse did and however the
\* loads ended, loads that yield an empty Song included, Menu::is_playing()
\* is true only if the menu's song is non-empty.
C28_PlayingOnlyWithSong ==
    menu.is_playing => ~IsEmpty(song)

\* the play button was clicked on the playback screen: the flag is up and a
\* track is loaded
C28_Witness ==
    /\ menu.is_playing
    /\ menu.was_mouse_pressed
    /\ ~IsEmpty(song)
    /\ GetButton(menu.buttons, PlayTag) # 0
    /\ \A i \in 1..Len(menu.buttons) : IsPlayback(menu.buttons[i])

\* a button action fires in this step: the play flag flips, a song is
\* loaded, or a loaded song is replaced by the empty one
C29_Fired ==
    \/ menu'.is_playing # menu.is_playing
    \/ lastLoad'.valid
    \/ song'.filename = <<>> /\ song.filename # <<>>

\* C29: menu clicks are edge-triggered and exclusive.  A button action fires
\* in a Menu::update only if the mouse is pressed in that update and was not
\* pressed in the previous one, only for a visible button that contains the
\* mouse position, and the update has the effect of that one button only; so
\* holding the mouse down over several updates fires at most one action.
C29_ClicksEdgeTriggered ==
    [][ C29_Fired =>
          /\ ~menu.was_mouse_pressed
          /\ menu'.was_mouse_pressed
          /\ \E listing \in ListingsFor(menu, song) :
             \E m \in {BeforeClick(menu, song, listing)} :
             \E mouse \in Points :
             \E over \in {{i \in 1..Len(m.buttons) :
                              m.buttons[i].is_visible /\ mouse \in m.buttons[i].region}} :
                   /\ over # {}
                   /\ \E i \in over :
                        /\ \A j \in over : i <= j
                        /\ \/ /\ m.buttons[i].tag = PlayTag
                              /\ menu'.is_playing = ~menu.is_playing
                              /\ song' = song
                              /\ ~lastLoad'.valid
                           \/ /\ m.buttons[i].tag = BackTag
                              /\ song' = EmptySong
                              /\ ~menu'.is_playing
                              /\ ~lastLoad'.valid
                           \/ /\ m.buttons[i].tag.prefix = "song_"
                              /\ lastLoad'.valid
                              /\ lastLoad'.file = GetFileFromTitle(m.buttons[i].label)
                              /\ menu'.is_playing = menu.is_playing ]_vars

\* a press on a song button loaded the song of that button, and the press
\* is remembered
C29_Witness ==
    /\ lastLoad.valid
    /\ lastLoad.file = FileBC
    /\ menu.was_mouse_pressed
    /\ ~menu.is_playing
    /\ ~menu.song_buttons_created
    /\ \A i \in 1..Len(menu.buttons) : IsPlayback(menu.buttons[i])

=============================================================================
